---- MODULE Spec2Model ----
(***************************************************************************)
(* State-machine model of MarkerLocator.py (indoor_tracker): the marker    *)
(* detector (MarkerTracker), the full-frame analyzer (ImageAnalyzer), the  *)
(* windowed tracker (TrackerInWindowMode) and the acquisition controller   *)
(* (CameraDriver).                                                         *)
(*                                                                         *)
(* Angles are integers in units of pi/HalfTurn.  An image is represented   *)
(* by its dimensions and by what the convolution of locateMarker reads     *)
(* from it: the position of the energy maximum, the base angle obtained    *)
(* from the filter response at that position, and the intensities at the   *)
(* probe points of determineMarkerOrientation.                             *)
(***************************************************************************)
EXTENDS Integers, Sequences, FiniteSets, TLC

VARIABLES
    \* CameraDriver
    running, cnt, currentFrame, processedFrame, oldLocations, trackers,
    windowedTrackers,
    \* the file system below output/ and the last pose handed to the bus
    savedFiles, odom,
    \* what the camera looks at, position of the main loop, last method
    \* called, key code polled by it (-1, no key, when it polled none)
    scene, pc, lastCall, key,
    \* MarkerTracker.limitAngleToRange, run one loop iteration at a time
    angleIn, angle, apc,
    \* MarkerTracker.determineMarkerOrientation applied to one image
    probeTracker, probeImage,
    \* TrackerInWindowMode.cropFrame applied to one frame and location
    cropIn, cropTracker,
    \* a stand-alone ImageAnalyzer
    analyzer, anFrame, anAnalyzed, anRegistered

vars == <<running, cnt, currentFrame, processedFrame, oldLocations, trackers,
          windowedTrackers, savedFiles, odom, scene, pc, lastCall, key,
          angleIn, angle, apc, probeTracker, probeImage, cropIn, cropTracker,
          analyzer, anFrame, anAnalyzed, anRegistered>>

driverVars == <<running, cnt, currentFrame, processedFrame, oldLocations,
                trackers, windowedTrackers, savedFiles, odom, scene, pc, lastCall,
                key>>
angleVars == <<angleIn, angle, apc>>
probeVars == <<probeTracker, probeImage>>
cropVars == <<cropIn, cropTracker>>
analyzerVars == <<analyzer, anFrame, anAnalyzed, anRegistered>>

\* Python's None
None == <<>>

----------------------------------------------------------------------------
(* Bounds of the model *)

\* angles given to limitAngleToRange span -MaxTurns .. MaxTurns full turns
MaxTurns == 2
\* probe intensities are 0 .. MaxIntensity
MaxIntensity == 2
\* save-file counter values explored
MaxSaves == 3
\* the allocation and call counters of the trackers stop counting here
MaxCalls == 2
\* markers registered with the stand-alone ImageAnalyzer
MaxMarkers == 2
\* frames given to cropFrame are up to MaxMargin pixels smaller or larger
\* than the search window
MaxMargin == 3

----------------------------------------------------------------------------
(* Program constants *)

MarkerOrders == <<7, 8>>
defaultOrientation == 0
windowWidth == 100
windowHeight == 100

\* pi and 2*pi in angle units; one unit is pi/56, so that 2*pi/order is a
\* whole number of units for the orders 7 and 8
HalfTurn == 7 * 8
FullTurn == 2 * HalfTurn

Min(a, b) == IF a < b THEN a ELSE b
Bump(n) == Min(n + 1, MaxCalls)

\* 1000 * 30 * cos(j * pi / 56), j = 0 .. 28, rounded
CosTable ==
    <<30000, 29953, 29811, 29576, 29248, 28828, 28316, 27716, 27029, 26257,
      25402, 24467, 23455, 22369, 21213, 19990, 18705, 17360, 15961, 14512,
      13017, 11481, 9908, 8305, 6676, 5025, 3359, 1682, 0>>

\* 1000 * ProbeDistance * math.cos(a)
Cos30(a) ==
    LET j == a % FullTurn
    IN  IF j <= HalfTurn \div 2 THEN CosTable[j + 1]
        ELSE IF j <= HalfTurn THEN -CosTable[HalfTurn - j + 1]
        ELSE IF j <= 3 * (HalfTurn \div 2) THEN -CosTable[j - HalfTurn + 1]
        ELSE CosTable[FullTurn - j + 1]

\* 1000 * ProbeDistance * math.sin(a)
Sin30(a) == Cos30(a - HalfTurn \div 2)

\* int(): truncation toward zero of milli / 1000
IntTrunc(milli) ==
    IF milli >= 0 THEN milli \div 1000 ELSE -((-milli) \div 1000)

----------------------------------------------------------------------------
(* MarkerTracker *)

NeedsUp(a) == a < HalfTurn
NeedsDownMutant(a) == a >= HalfTurn
NeedsDown(a) == a > HalfTurn

StepUp(a) == a + FullTurn
StepDown(a) == a - FullTurn

RECURSIVE LimitUp(_)
LimitUp(a) == IF NeedsUp(a) THEN LimitUp(StepUp(a)) ELSE a
RECURSIVE LimitDown(_)
LimitDown(a) == IF NeedsDown(a) THEN LimitDown(StepDown(a)) ELSE a

limitAngleToRange(a) == LimitDown(LimitUp(a))

NewMarkerTracker(order) ==
    [order |-> order, lastMarkerLocation |-> None, orientation |-> None,
     allocated |-> None, allocs |-> 0]

allocateSpaceGivenFirstFrame(mt, dims) ==
    [mt EXCEPT !.allocated = dims, !.allocs = Bump(@)]

\* cv.Get2D(frame, ym2, xm2) raises when the point is outside the image
InImage(img, x, y) == x >= 0 /\ x < img.dims[1] /\ y >= 0 /\ y < img.dims[2]

Candidate(mt, img, k) == img.base + (2 * k * HalfTurn) \div mt.order

ProbeX(mt, img, k) ==
    IntTrunc(1000 * mt.lastMarkerLocation[1] + Cos30(Candidate(mt, img, k)))
ProbeY(mt, img, k) ==
    IntTrunc(1000 * mt.lastMarkerLocation[2] + Sin30(Candidate(mt, img, k)))

ProbeHit(mt, img, k) == InImage(img, ProbeX(mt, img, k), ProbeY(mt, img, k))

BetterMutant(intensity, maxValue) == intensity >= maxValue
Better(intensity, maxValue) == intensity > maxValue

\* the loop over k of determineMarkerOrientation; best = <<maxValue, maxOrient>>
RECURSIVE ProbeLoop(_, _, _, _)
ProbeLoop(mt, img, k, best) ==
    IF k >= mt.order THEN best
    ELSE IF ProbeHit(mt, img, k) /\ Better(img.probes[k + 1], best[1])
         THEN ProbeLoop(mt, img, k + 1, <<img.probes[k + 1], Candidate(mt, img, k)>>)
         ELSE ProbeLoop(mt, img, k + 1, best)

determineMarkerOrientation(mt, img) ==
    [mt EXCEPT !.orientation = limitAngleToRange(ProbeLoop(mt, img, 0, <<0, 0>>)[2])]

locateMarker(mt, img) ==
    determineMarkerOrientation([mt EXCEPT !.lastMarkerLocation = img.peak], img)

\* atan2 takes values in [-pi, pi], so (atan2 - pi/2) / order lies in
\* [-3*pi/(2*order), pi/(2*order)]
BaseAngles(order) ==
    {b \in -HalfTurn .. HalfTurn :
        -3 * HalfTurn <= 2 * order * b /\ 2 * order * b <= HalfTurn}

Intensities == 0 .. MaxIntensity

GrayImage(dims, peak, base, probes) ==
    [dims |-> dims, peak |-> peak, base |-> base, probes |-> probes]

----------------------------------------------------------------------------
(* ImageAnalyzer *)

NewImageAnalyzer(downscaleFactor) ==
    [downscaleFactor |-> downscaleFactor, markerTrackers |-> <<>>,
     subClassesInitialized |-> FALSE, markerLocationsX |-> <<>>,
     markerLocationsY |-> <<>>, reducedDims |-> None,
     \* history: whether the last analyzeImage ran initializeSubClasses
     allocatedNow |-> FALSE]

addMarkerToTrackMutant(an, order) ==
    [an EXCEPT !.markerTrackers = Append(@, NewMarkerTracker(order)),
               !.markerLocationsX = Append(@, 0),
               !.markerLocationsY = Append(@, 0)]
addMarkerToTrack(an, order) ==
    [an EXCEPT !.markerTrackers = Append(@, NewMarkerTracker(order)),
               !.markerLocationsX = Append(@, 0),
               !.markerLocationsY = Append(@, 0),
               !.subClassesInitialized = FALSE]

ReducedDims(an, frame) ==
    <<frame.width \div an.downscaleFactor, frame.height \div an.downscaleFactor>>

initializeSubClasses(an, frame) ==
    [an EXCEPT !.subClassesInitialized = TRUE,
               !.reducedDims = ReducedDims(an, frame),
               !.markerTrackers =
                   [k \in DOMAIN @ |->
                       allocateSpaceGivenFirstFrame(@[k], ReducedDims(an, frame))],
               !.allocatedNow = TRUE]

\* the dimensions of frameGray once analyzeImage has passed its allocation step
GrayDims(an, frame) ==
    IF an.subClassesInitialized THEN an.reducedDims ELSE ReducedDims(an, frame)

\* grays[k] is what detector k reads from self.frameGray
analyzeImage(an, frame, grays) ==
    LET a1 == IF an.subClassesInitialized = FALSE
              THEN initializeSubClasses(an, frame)
              ELSE [an EXCEPT !.allocatedNow = FALSE]
        located == [k \in DOMAIN a1.markerTrackers |->
                       locateMarker(a1.markerTrackers[k], grays[k])]
    IN  [a1 EXCEPT !.markerTrackers = located,
                   !.markerLocationsX =
                       [k \in DOMAIN located |->
                           a1.downscaleFactor * located[k].lastMarkerLocation[1]],
                   !.markerLocationsY =
                       [k \in DOMAIN located |->
                           a1.downscaleFactor * located[k].lastMarkerLocation[2]]]

----------------------------------------------------------------------------
(* TrackerInWindowMode *)

\* gray is the content of the frameGray buffer created by the constructor
NewTrackerInWindowMode(order, gray) ==
    [windowWidth |-> windowWidth, windowHeight |-> windowHeight,
     frameGray |-> gray, markerTracker |-> NewMarkerTracker(order),
     trackerIsInitialized |-> FALSE, subImagePosition |-> None,
     \* history: number of cropFrame calls, and whether the last one left
     \* its try block by an exception
     crops |-> 0, failed |-> FALSE]

ClampLowMutant(c) == IF c < 0 THEN 0 ELSE c
ClampLow(c) == IF c < 1 THEN 1 ELSE c
ClampHigh(c, frameDim, windowDim) ==
    IF c > frameDim - windowDim THEN frameDim - windowDim ELSE c

CornerPos(tw, frame, lastMarkerLocationX, lastMarkerLocationY) ==
    <<ClampHigh(ClampLow(lastMarkerLocationX - tw.windowWidth \div 2),
                frame.width, tw.windowWidth),
      ClampHigh(ClampLow(lastMarkerLocationY - tw.windowHeight \div 2),
                frame.height, tw.windowHeight)>>

\* cv.GetSubRect raises unless the rectangle lies inside the frame
SubRectOk(frame, rect) ==
    /\ rect[1] >= 0 /\ rect[2] >= 0
    /\ rect[1] + rect[3] <= frame.width
    /\ rect[2] + rect[4] <= frame.height

\* gray is the grayscale content of the window in this frame; interrupted
\* says that the try block is left by an exception for another reason
cropFrame(tw, frame, lastMarkerLocationX, lastMarkerLocationY, gray, interrupted) ==
    LET t1 == IF ~tw.trackerIsInitialized
              THEN [tw EXCEPT !.markerTracker =
                       allocateSpaceGivenFirstFrame(@, <<tw.windowWidth, tw.windowHeight>>)]
              ELSE tw
        corner == CornerPos(tw, frame, lastMarkerLocationX, lastMarkerLocationY)
        rect == <<corner[1], corner[2], tw.windowWidth, tw.windowHeight>>
        t2 == [t1 EXCEPT !.subImagePosition = rect, !.crops = Bump(@)]
    IN  IF SubRectOk(frame, rect) /\ ~interrupted
        THEN [t2 EXCEPT !.frameGray = gray, !.failed = FALSE]
        ELSE [t2 EXCEPT !.failed = TRUE]

WindowedLocate(tw) ==
    [tw EXCEPT !.markerTracker = locateMarker(@, tw.frameGray)]

\* the list TrackerInWindowMode.locateMarker returns, read off the tracker
\* it leaves behind
WindowedResult(tw) ==
    <<tw.markerTracker.lastMarkerLocation[1] + tw.subImagePosition[1],
      tw.markerTracker.lastMarkerLocation[2] + tw.subImagePosition[2],
      tw.markerTracker.orientation>>

----------------------------------------------------------------------------
(* Inputs: camera frames, image contents, key codes *)

Frame(dims) == [width |-> dims[1], height |-> dims[2]]

\* the resolution the camera delivers: a little more than the search window
FrameSizes == {<<windowWidth + 2, windowHeight + 1>>}

Dark(order) == [k \in 1 .. order |-> 0]
Lit(order, j) == [k \in 1 .. order |-> IF k = j THEN MaxIntensity ELSE 1]

\* contents of a 100x100 window as the detector of the given order reads them
WindowGrays(order) ==
    LET d == <<windowWidth, windowHeight>>
    IN  IF scene = "varied"
        THEN {GrayImage(d, <<50, 50>>, 2, Lit(order, 1)),
              GrayImage(d, <<20, 99>>, -3, Lit(order, order))}
        ELSE {GrayImage(d, <<50, 50>>, 2, Lit(order, 1))}

\* contents of a whole frame of the given dimensions
FullGrays(order, dims) ==
    IF scene = "varied"
    THEN {GrayImage(dims, <<0, 0>>, 0, Dark(order)),
          GrayImage(dims, <<dims[1] \div 2 + 10, dims[2] \div 2 - 5>>, 1, Lit(order, 2))}
    ELSE {GrayImage(dims, <<dims[1] \div 2 + 10, dims[2] \div 2 - 5>>, 1, Lit(order, 2))}

\* cv.WaitKey results: no key (-1), Esc, r, s, the same with high bits set,
\* and keys without a command
KeyCodes == {-1, 27, 114, 115, 1048576 + 27, 65536 + 114, 1048576 + 115, 83}

----------------------------------------------------------------------------
(* CameraDriver *)

NumMarkers == Len(MarkerOrders)

InitTrackers ==
    [k \in 1 .. NumMarkers |-> addMarkerToTrack(NewImageAnalyzer(1), MarkerOrders[k])]

InitOldLocations == [k \in 1 .. NumMarkers |-> None]

\* "%03d" % n, as the sequence of its digits
RECURSIVE Decimal(_)
Decimal(n) == IF n < 10 THEN <<n>> ELSE Append(Decimal(n \div 10), n % 10)
RECURSIVE PadLeft(_, _)
PadLeft(digits, width) ==
    IF Len(digits) >= width THEN digits ELSE PadLeft(<<0>> \o digits, width)
Format03d(n) == PadLeft(Decimal(n), 3)

FileName(n) == <<"output/filename", Format03d(n), ".png">>

\* the state processFrame works on
DriverState ==
    [oldLocations |-> oldLocations, trackers |-> trackers,
     windowedTrackers |-> windowedTrackers, processedFrame |-> processedFrame]

SearchMarkerMutant(st, k, gray) ==
    [st EXCEPT !.trackers[k] = analyzeImage(@, currentFrame, <<gray>>),
               !.processedFrame = currentFrame]
\* processFrame, marker k without a known location
SearchMarker(st, k, gray) ==
    LET an == analyzeImage(st.trackers[k], currentFrame, <<gray>>)
    IN  [st EXCEPT !.trackers[k] = an,
                   !.processedFrame = currentFrame,
                   !.oldLocations[k] =
                       <<an.markerLocationsX[1], an.markerLocationsY[1],
                         defaultOrientation>>]

\* processFrame, marker k with a known location
TrackMarker(st, k, gray, interrupted) ==
    LET tw == WindowedLocate(cropFrame(st.windowedTrackers[k], currentFrame,
                                       st.oldLocations[k][1], st.oldLocations[k][2],
                                       gray, interrupted))
    IN  [st EXCEPT !.windowedTrackers[k] = tw,
                   !.oldLocations[k] = WindowedResult(tw)]

ProcessMarker(st, k, in) ==
    IF st.oldLocations[k] = None
    THEN SearchMarker(st, k, in.gray)
    ELSE TrackMarker(st, k, in.gray, in.interrupted)

RECURSIVE ProcessFromMutant(_, _, _)
ProcessFromMutant(st, k, ins) ==
    IF k >= Len(st.trackers) THEN st
    ELSE ProcessFromMutant(ProcessMarker(st, k, ins[k]), k + 1, ins)
\* the loop of processFrame over the markers
RECURSIVE ProcessFrom(_, _, _)
ProcessFrom(st, k, ins) ==
    IF k > Len(st.trackers) THEN st
    ELSE ProcessFrom(ProcessMarker(st, k, ins[k]), k + 1, ins)

\* what marker k can meet in the current frame: the content of the image its
\* detector is run on, or an exception that ends the try block of cropFrame
MarkerInputs(k) ==
    IF oldLocations[k] = None
    THEN {[gray |-> g, interrupted |-> FALSE] :
             g \in FullGrays(MarkerOrders[k], GrayDims(trackers[k], currentFrame))}
    ELSE {[gray |-> g, interrupted |-> FALSE] : g \in WindowGrays(MarkerOrders[k])}
         \cup {[gray |-> None, interrupted |-> TRUE]}

RECURSIVE InputSeqs(_)
InputSeqs(n) ==
    IF n = 0 THEN {<<>>}
    ELSE {Append(s, i) : s \in InputSeqs(n - 1), i \in MarkerInputs(n)}

getImage ==
    /\ \E d \in FrameSizes : currentFrame' = Frame(d)
    /\ lastCall' = "getImage"
    /\ key' = -1
    /\ UNCHANGED <<running, cnt, processedFrame, oldLocations, trackers,
                   windowedTrackers, savedFiles, odom, scene>>

processFrame ==
    /\ currentFrame # None
    /\ \E ins \in InputSeqs(NumMarkers) :
          LET st == ProcessFrom(DriverState, 1, ins)
          IN  /\ oldLocations' = st.oldLocations
              /\ trackers' = st.trackers
              /\ windowedTrackers' = st.windowedTrackers
              /\ processedFrame' = st.processedFrame
    /\ lastCall' = "processFrame"
    /\ key' = -1
    /\ UNCHANGED <<running, cnt, currentFrame, savedFiles, odom, scene>>

ResetLocations(locs) ==
    [k \in DOMAIN locs |-> IF k <= Len(trackers) THEN None ELSE locs[k]]

resetAllLocations ==
    /\ oldLocations' = ResetLocations(oldLocations)
    /\ lastCall' = "resetAllLocations"
    /\ key' = -1
    /\ UNCHANGED <<running, cnt, currentFrame, processedFrame, trackers,
                   windowedTrackers, savedFiles, odom, scene>>

MaskKeyMutant(code) == code
MaskKey(code) == code % 256

NextCntMutant(n) == n + 2
NextCnt(n) == n + 1

handleKeyboardEvents ==
    \E code \in KeyCodes :
        LET k == MaskKey(code)
        IN  /\ k = 115 => cnt < MaxSaves /\ currentFrame # None
            /\ running' = IF k = 27 THEN FALSE ELSE running
            /\ oldLocations' = IF k = 114 THEN ResetLocations(oldLocations)
                               ELSE oldLocations
            /\ savedFiles' = IF k = 115 THEN Append(savedFiles, FileName(cnt))
                             ELSE savedFiles
            /\ cnt' = IF k = 115 THEN NextCnt(cnt) ELSE cnt
            /\ lastCall' = "handleKeyboardEvents"
            /\ key' = code
            /\ UNCHANGED <<currentFrame, processedFrame, trackers,
                           windowedTrackers, odom, scene>>

\* the frameGray buffers of the windowed trackers are created without content
RECURSIVE InitWindowedTrackers(_)
InitWindowedTrackers(n) ==
    IF n = 0 THEN {<<>>}
    ELSE {Append(s, NewTrackerInWindowMode(MarkerOrders[n], g)) :
             s \in InitWindowedTrackers(n - 1), g \in WindowGrays(MarkerOrders[n])}

InitDriver ==
    /\ running = TRUE
    /\ cnt = 0
    /\ currentFrame = None
    /\ processedFrame = None
    /\ oldLocations = InitOldLocations
    /\ trackers = InitTrackers
    /\ windowedTrackers \in InitWindowedTrackers(NumMarkers)
    /\ savedFiles = <<>>
    /\ odom = None
    /\ lastCall = "init"
    /\ key = -1

IdleAngle == angleIn = 0 /\ angle = 0 /\ apc = "idle"
IdleProbe == probeTracker = None /\ probeImage = None
IdleCrop == cropIn = None /\ cropTracker = None
IdleAnalyzer ==
    analyzer = None /\ anFrame = None /\ anAnalyzed = FALSE /\ anRegistered = FALSE

otherVars == <<angleVars, probeVars, cropVars, analyzerVars>>

\* Any sequence of calls of getImage, processFrame and resetAllLocations
Init ==
    /\ scene = "varied"
    /\ InitDriver
    /\ pc = "api"
    /\ IdleAngle /\ IdleProbe /\ IdleCrop /\ IdleAnalyzer

Next ==
    \/ getImage /\ UNCHANGED <<pc, otherVars>>
    \/ processFrame /\ UNCHANGED <<pc, otherVars>>
    \/ resetAllLocations /\ UNCHANGED <<pc, otherVars>>

Spec == Init /\ [][Next]_vars

\* Any sequence of calls of getImage, processFrame and handleKeyboardEvents
InitKeys ==
    /\ scene = "plain"
    /\ InitDriver
    /\ pc = "api"
    /\ IdleAngle /\ IdleProbe /\ IdleCrop /\ IdleAnalyzer

NextKeys ==
    \/ getImage /\ UNCHANGED <<pc, otherVars>>
    \/ processFrame /\ UNCHANGED <<pc, otherVars>>
    \/ handleKeyboardEvents /\ UNCHANGED <<pc, otherVars>>

SpecKeys == InitKeys /\ [][NextKeys]_vars

\* the driver at rest, for the specifications of the single components
IdleDriver == scene = "plain" /\ InitDriver /\ pc = "api"

----------------------------------------------------------------------------
(* The main loop: acquire, process, publish, render, poll the keyboard,    *)
(* until the running flag is cleared                                       *)

\* x / 100.0 as a fraction
Hundredth(x) == <<x, 100>>

PoseOf(loc) ==
    [x |-> Hundredth(loc[1]), y |-> Hundredth(loc[2]), z |-> <<0, 1>>,
     yaw |-> loc[3]]

\* self.odom after the loop over the markers: the pose of the last one
publishMarkerLocations(locations) == PoseOf(locations[NumMarkers])

LoopGetImage ==
    /\ pc = "getImage"
    /\ getImage
    /\ pc' = "processFrame"

LoopProcessFrame ==
    /\ pc = "processFrame"
    /\ processFrame
    /\ pc' = "publish"

LoopPublish ==
    /\ pc = "publish"
    /\ odom' = IF \A k \in 1 .. NumMarkers : oldLocations[k] # None
               THEN publishMarkerLocations(oldLocations) ELSE odom
    /\ pc' = "draw"
    /\ lastCall' = "publishMarkerLocations"
    /\ key' = -1
    /\ UNCHANGED <<running, cnt, currentFrame, processedFrame, oldLocations,
                   trackers, windowedTrackers, savedFiles, scene>>

\* drawDetectedMarkers and showProcessedFrame draw on the processed frame
LoopDraw ==
    /\ pc = "draw"
    /\ pc' = "keys"
    /\ lastCall' = "drawDetectedMarkers"
    /\ key' = -1
    /\ UNCHANGED <<running, cnt, currentFrame, processedFrame, oldLocations,
                   trackers, windowedTrackers, savedFiles, odom, scene>>

LoopKeys ==
    /\ pc = "keys"
    /\ handleKeyboardEvents
    /\ pc' = IF running' THEN "getImage" ELSE "stopped"

InitLoop ==
    /\ scene = "plain"
    /\ InitDriver
    /\ pc = "getImage"
    /\ IdleAngle /\ IdleProbe /\ IdleCrop /\ IdleAnalyzer

NextLoop ==
    \/ LoopGetImage /\ UNCHANGED otherVars
    \/ LoopProcessFrame /\ UNCHANGED otherVars
    \/ LoopPublish /\ UNCHANGED otherVars
    \/ LoopDraw /\ UNCHANGED otherVars
    \/ LoopKeys /\ UNCHANGED otherVars

SpecLoop == InitLoop /\ [][NextLoop]_vars

----------------------------------------------------------------------------
(* limitAngleToRange, one loop iteration per step *)

AngleInputs == -(MaxTurns * FullTurn) .. MaxTurns * FullTurn

AngleUp ==
    /\ apc = "up" /\ NeedsUp(angle)
    /\ angle' = StepUp(angle)
    /\ UNCHANGED <<angleIn, apc>>

AngleUpDone ==
    /\ apc = "up" /\ ~NeedsUp(angle)
    /\ apc' = "down"
    /\ UNCHANGED <<angleIn, angle>>

AngleDown ==
    /\ apc = "down" /\ NeedsDown(angle)
    /\ angle' = StepDown(angle)
    /\ UNCHANGED <<angleIn, apc>>

AngleReturn ==
    /\ apc = "down" /\ ~NeedsDown(angle)
    /\ apc' = "done"
    /\ UNCHANGED <<angleIn, angle>>

InitAngle ==
    /\ angleIn \in AngleInputs
    /\ angle = angleIn
    /\ apc = "up"
    /\ IdleDriver /\ IdleProbe /\ IdleCrop /\ IdleAnalyzer

NextAngle ==
    \/ AngleUp /\ UNCHANGED <<driverVars, probeVars, cropVars, analyzerVars>>
    \/ AngleUpDone /\ UNCHANGED <<driverVars, probeVars, cropVars, analyzerVars>>
    \/ AngleDown /\ UNCHANGED <<driverVars, probeVars, cropVars, analyzerVars>>
    \/ AngleReturn /\ UNCHANGED <<driverVars, probeVars, cropVars, analyzerVars>>

\* the function runs to its end once called
SpecAngle == InitAngle /\ [][NextAngle]_vars /\ WF_vars(NextAngle)

----------------------------------------------------------------------------
(* determineMarkerOrientation on one image *)

\* images as large as the search window, and images smaller than the probe
\* distance; the energy maximum lies inside the image
\* dimensions, position of the maximum, base angle, marker
ProbeScenes ==
    {<<<<windowWidth, windowHeight>>, <<50, 50>>, 0, 1>>,
     <<<<windowWidth, windowHeight>>, <<0, 0>>, -8, 2>>,
     <<<<20, 20>>, <<10, 10>>, 3, 1>>}

InitProbe ==
    /\ \E sc \in ProbeScenes :
          \E pr \in [1 .. MarkerOrders[sc[4]] -> Intensities] :
              /\ sc[3] \in BaseAngles(MarkerOrders[sc[4]])
              /\ probeImage = GrayImage(sc[1], sc[2], sc[3], pr)
              /\ probeTracker =
                     [NewMarkerTracker(MarkerOrders[sc[4]]) EXCEPT
                         !.lastMarkerLocation = sc[2]]
    /\ IdleDriver /\ IdleAngle /\ IdleCrop /\ IdleAnalyzer

DetermineOrientation ==
    /\ lastCall = "init"
    /\ probeTracker' = determineMarkerOrientation(probeTracker, probeImage)
    /\ lastCall' = "determineMarkerOrientation"
    /\ UNCHANGED <<running, cnt, currentFrame, processedFrame, oldLocations,
                   trackers, windowedTrackers, savedFiles, odom, scene, pc, key>>
    /\ UNCHANGED <<probeImage, angleVars, cropVars, analyzerVars>>

NextProbe == DetermineOrientation

SpecProbe == InitProbe /\ [][NextProbe]_vars

----------------------------------------------------------------------------
(* cropFrame on one tracker *)

\* frame sizes around the size of the search window, and a camera frame
CropFrameSizes ==
    ((windowWidth - MaxMargin) .. (windowWidth + MaxMargin))
        \X ((windowHeight - MaxMargin) .. (windowHeight + MaxMargin))
    \cup {<<640, 480>>}

\* last locations along one axis of a frame: the ends, the middle, and the
\* places where the clamping sets in
LastCoords(dim) ==
    {c \in {0, 1, 50, 51, dim \div 2, dim - 50, dim - 49, dim} :
        c >= 0 /\ c <= dim}

InitCrop ==
    /\ IdleDriver /\ IdleAngle /\ IdleProbe /\ IdleAnalyzer
    /\ \E d \in CropFrameSizes :
          cropIn = [frame |-> Frame(d), x |-> 0, y |-> 0]
    /\ cropTracker \in {NewTrackerInWindowMode(MarkerOrders[1], g) :
                           g \in WindowGrays(MarkerOrders[1])}

CropFrame ==
    /\ \E x \in LastCoords(cropIn.frame.width), y \in LastCoords(cropIn.frame.height),
          g \in WindowGrays(MarkerOrders[1]), i \in BOOLEAN :
          /\ cropIn' = [cropIn EXCEPT !.x = x, !.y = y]
          /\ cropTracker' = cropFrame(cropTracker, cropIn.frame, x, y, g, i)
    /\ lastCall' = "cropFrame"
    /\ UNCHANGED <<running, cnt, currentFrame, processedFrame, oldLocations,
                   trackers, windowedTrackers, savedFiles, odom, scene, pc, key>>
    /\ UNCHANGED <<angleVars, probeVars, analyzerVars>>

NextCrop == CropFrame

SpecCrop == InitCrop /\ [][NextCrop]_vars

----------------------------------------------------------------------------
(* A stand-alone ImageAnalyzer with the default downscale factor *)

DefaultDownscaleFactor == 2

AnalyzerFrameSizes == {<<204, 202>>, <<205, 203>>, <<300, 202>>}

\* contents of the downscaled gray image, one per registered detector
RECURSIVE AnalyzerGrays(_, _)
AnalyzerGrays(mts, dims) ==
    IF mts = <<>> THEN {<<>>}
    ELSE {<<g>> \o rest :
             g \in {GrayImage(dims, <<50, 60>>, 0, Lit(Head(mts).order, 1)),
                    GrayImage(dims, <<dims[1] - 1, 0>>, 0, Dark(Head(mts).order))},
             rest \in AnalyzerGrays(Tail(mts), dims)}

Register ==
    /\ Len(analyzer.markerTrackers) < MaxMarkers
    /\ \E k \in 1 .. NumMarkers :
          analyzer' = addMarkerToTrack(analyzer, MarkerOrders[k])
    /\ anRegistered' = TRUE
    /\ lastCall' = "addMarkerToTrack"
    /\ UNCHANGED <<anFrame, anAnalyzed>>
    /\ UNCHANGED <<running, cnt, currentFrame, processedFrame, oldLocations,
                   trackers, windowedTrackers, savedFiles, odom, scene, pc, key>>
    /\ UNCHANGED <<angleVars, probeVars, cropVars>>

Analyze ==
    /\ \E d \in AnalyzerFrameSizes :
          \E grays \in AnalyzerGrays(analyzer.markerTrackers,
                                     GrayDims(analyzer, Frame(d))) :
              /\ anFrame' = Frame(d)
              /\ analyzer' = analyzeImage(analyzer, Frame(d), grays)
    /\ anAnalyzed' = TRUE
    /\ anRegistered' = FALSE
    /\ lastCall' = "analyzeImage"
    /\ UNCHANGED <<running, cnt, currentFrame, processedFrame, oldLocations,
                   trackers, windowedTrackers, savedFiles, odom, scene, pc, key>>
    /\ UNCHANGED <<angleVars, probeVars, cropVars>>

InitAnalyzer ==
    /\ analyzer = NewImageAnalyzer(DefaultDownscaleFactor)
    /\ anFrame = None
    /\ anAnalyzed = FALSE
    /\ anRegistered = FALSE
    /\ IdleDriver /\ IdleAngle /\ IdleProbe /\ IdleCrop

NextAnalyzer ==
    \/ Register
    \/ Analyze

SpecAnalyzer == InitAnalyzer /\ [][NextAnalyzer]_vars

----------------------------------------------------------------------------
(* Properties *)

Markers == 1 .. NumMarkers
Known(locs, k) == locs[k] # None
FullResult(an) == <<an.markerLocationsX[1], an.markerLocationsY[1], 0>>

\* C1: in a processFrame call every marker whose location is unknown is
\* handled by the full-frame search alone and afterwards has the location that
\* search found, with orientation 0; every marker has a known location after
\* the call; and a known location becomes unknown only in resetAllLocations.
C1_ModeTransition ==
    [][/\ lastCall' = "processFrame" =>
            \A k \in Markers :
                /\ Known(oldLocations', k)
                /\ ~Known(oldLocations, k) =>
                      /\ oldLocations'[k] = FullResult(trackers'[k])
                      /\ trackers'[k].markerTrackers[1].lastMarkerLocation # None
                      /\ windowedTrackers'[k] = windowedTrackers[k]
                /\ Known(oldLocations, k) => trackers'[k] = trackers[k]
       /\ (\E k \in Markers : Known(oldLocations, k) /\ ~Known(oldLocations', k))
              => lastCall' = "resetAllLocations"]_vars

\* a marker tracked earlier has been reset and found again by the full search
C1_Witness ==
    /\ lastCall = "processFrame"
    /\ windowedTrackers[1].crops > 0
    /\ oldLocations[1] = FullResult(trackers[1])
    /\ oldLocations[1] # WindowedResult(windowedTrackers[1])
    /\ Known(oldLocations, 2)

\* C2: when cropFrame fails for a tracked marker during processFrame, the
\* marker's cached (x, y, orientation) and the tracker's window corner are the
\* same after the call as before it.
C2_CropFailureKeepsState ==
    [][lastCall' = "processFrame" =>
          \A k \in Markers :
              (Known(oldLocations, k) /\ windowedTrackers'[k].failed) =>
                  /\ oldLocations'[k] = oldLocations[k]
                  /\ windowedTrackers'[k].subImagePosition =
                         windowedTrackers[k].subImagePosition]_vars

CornerInRange(tw, frame) ==
    /\ 1 <= tw.subImagePosition[1]
    /\ tw.subImagePosition[1] <= frame.width - tw.windowWidth
    /\ 1 <= tw.subImagePosition[2]
    /\ tw.subImagePosition[2] <= frame.height - tw.windowHeight
    /\ SubRectOk(frame, tw.subImagePosition)

\* C3 as stated: after cropFrame, for every frame and last location, the
\* window corner lies in 1 .. frameDim - windowDim on each axis and the window
\* is contained in the frame.
C3_CornerInRangeAnyFrame ==
    lastCall = "cropFrame" => CornerInRange(cropTracker, cropIn.frame)

\* C3 as amended: the same for every frame that is larger than the search
\* window on both axes.
C3_CornerInRange ==
    (/\ lastCall = "cropFrame"
     /\ cropIn.frame.width > cropTracker.windowWidth
     /\ cropIn.frame.height > cropTracker.windowHeight)
        => CornerInRange(cropTracker, cropIn.frame)

\* the last location is the far corner of a camera frame
C3_Witness ==
    /\ lastCall = "cropFrame"
    /\ cropIn.frame = Frame(<<640, 480>>)
    /\ cropIn.x = cropIn.frame.width /\ cropIn.y = cropIn.frame.height
    /\ cropTracker.subImagePosition = <<540, 380, 100, 100>>

\* C4: limitAngleToRange ends, and its result lies in (-pi, pi] and differs
\* from its argument by a multiple of 2*pi.
C4_LimitAngle ==
    /\ [](apc = "done" =>
            /\ -HalfTurn < angle /\ angle <= HalfTurn
            /\ (angle - angleIn) % FullTurn = 0)
    /\ <>(apc = "done")

\* -pi is brought to pi
C4_Witness == apc = "done" /\ angleIn = -HalfTurn /\ angle = HalfTurn

\* the n-th file name, digit by digit
ThreeDigits(n) == <<(n \div 100) % 10, (n \div 10) % 10, n % 10>>
SaveName(n) == <<"output/filename", ThreeDigits(n), ".png">>
IsKey(code, command) == code % 256 = command

\* C5: the counter starts at 0, never decreases and changes only in the
\* handling of an S key; the n-th S key (n = 0, 1, ...) writes
\* output/filename<n in three digits>.png and adds exactly 1 to the counter.
C5_SaveNumbering ==
    /\ [](/\ Len(savedFiles) = cnt
          /\ \A i \in 1 .. Len(savedFiles) : savedFiles[i] = SaveName(i - 1))
    /\ [][/\ cnt' >= cnt
          /\ cnt' # cnt => lastCall' = "handleKeyboardEvents" /\ IsKey(key', 115)
          /\ (lastCall' = "handleKeyboardEvents" /\ IsKey(key', 115)) =>
                /\ cnt' = cnt + 1
                /\ savedFiles' = Append(savedFiles, SaveName(cnt))]_vars

\* three saves, with frames processed in between
C5_Witness ==
    /\ savedFiles = <<<<"output/filename", <<0, 0, 0>>, ".png">>,
                      <<"output/filename", <<0, 0, 1>>, ".png">>,
                      <<"output/filename", <<0, 0, 2>>, ".png">>>>
    /\ cnt = 3
    /\ windowedTrackers[1].crops > 0

\* C6: handleKeyboardEvents acts on the low 8 bits of the key code; Esc only
\* clears the running flag, R only makes every location unknown, S only
\* counts a save, any other code changes none of the three; and the running
\* flag, once cleared, stays cleared.
C6_KeyDispatch ==
    [][/\ lastCall' = "handleKeyboardEvents" =>
            /\ IsKey(key', 27) =>
                  ~running' /\ oldLocations' = oldLocations /\ cnt' = cnt
            /\ IsKey(key', 114) =>
                  /\ \A k \in Markers : ~Known(oldLocations', k)
                  /\ running' = running /\ cnt' = cnt
            /\ IsKey(key', 115) =>
                  cnt' = cnt + 1 /\ running' = running /\ oldLocations' = oldLocations
            /\ (~IsKey(key', 27) /\ ~IsKey(key', 114) /\ ~IsKey(key', 115)) =>
                  running' = running /\ oldLocations' = oldLocations /\ cnt' = cnt
       /\ ~running => ~running']_vars

\* an R with high bits set has reset the located markers, after a save and
\* an Esc
C6_Witness ==
    /\ lastCall = "handleKeyboardEvents"
    /\ key = 65536 + 114
    /\ \A k \in Markers : ~Known(oldLocations, k) /\ trackers[k].subClassesInitialized
    /\ ~running
    /\ cnt > 0

ProbeInside(k) ==
    InImage(probeImage, ProbeX(probeTracker, probeImage, k),
            ProbeY(probeTracker, probeImage, k))
ProbeValue(k) == probeImage.probes[k + 1]
\* the angle in (-pi, pi] that differs from a by a multiple of 2*pi
Normalized(a) == ((a + HalfTurn - 1) % FullTurn) - HalfTurn + 1
ProbeIndices == 0 .. probeTracker.order - 1

\* C7: determineMarkerOrientation leaves 0 when no probe inside the image has
\* an intensity above 0, and otherwise the normalized angle of the first
\* candidate whose probe lies inside the image and has the highest intensity
\* of all probes inside the image.
C7_ProbeOrientation ==
    lastCall = "determineMarkerOrientation" =>
        IF \A k \in ProbeIndices : ~ProbeInside(k) \/ ProbeValue(k) <= 0
        THEN probeTracker.orientation = 0
        ELSE \E k \in ProbeIndices :
                /\ ProbeInside(k) /\ ProbeValue(k) > 0
                /\ \A j \in ProbeIndices : ProbeInside(j) => ProbeValue(j) <= ProbeValue(k)
                /\ \A j \in 0 .. k - 1 : ProbeInside(j) => ProbeValue(j) < ProbeValue(k)
                /\ probeTracker.orientation =
                       Normalized(Candidate(probeTracker, probeImage, k))

\* the brightest probe lies outside the image and a dimmer one inside wins
C7_Witness ==
    /\ lastCall = "determineMarkerOrientation"
    /\ \E j, k \in ProbeIndices :
          /\ ~ProbeInside(j) /\ ProbeValue(j) = MaxIntensity
          /\ ProbeInside(k) /\ ProbeValue(k) > 0 /\ ProbeValue(k) < MaxIntensity
          /\ probeTracker.orientation =
                 Normalized(Candidate(probeTracker, probeImage, k))
          /\ probeTracker.orientation # 0

\* C8 as stated: analyzeImage allocates exactly when it is the first call or a
\* marker was registered since the last call, and every detector is then
\* allocated for the downscaled size of the frame being analyzed.
C8_AllocatedForFrame ==
    [][lastCall' = "analyzeImage" =>
          /\ analyzer'.allocatedNow <=> (~anAnalyzed \/ anRegistered)
          /\ \A k \in DOMAIN analyzer'.markerTrackers :
                analyzer'.markerTrackers[k].allocated =
                    ReducedDims(analyzer', anFrame')]_vars

\* C8 as amended: analyzeImage allocates exactly when it is the first call or a
\* marker was registered since the last call, and every detector is then
\* allocated for the size of the downscaled image it is run on, which is the
\* downscaled size of the frame given to the last allocating call.
C8_AllocatedForGray ==
    [][lastCall' = "analyzeImage" =>
          /\ analyzer'.allocatedNow <=> (~anAnalyzed \/ anRegistered)
          /\ analyzer'.allocatedNow =>
                analyzer'.reducedDims = ReducedDims(analyzer', anFrame')
          /\ ~analyzer'.allocatedNow => analyzer'.reducedDims = analyzer.reducedDims
          /\ \A k \in DOMAIN analyzer'.markerTrackers :
                /\ analyzer'.markerTrackers[k].allocated = analyzer'.reducedDims
                /\ analyzer'.markerTrackers[k].lastMarkerLocation # None]_vars

\* two detectors were run, without allocation, on a frame of another size
\* than the one they were allocated for
C8_Witness ==
    /\ lastCall = "analyzeImage"
    /\ Len(analyzer.markerTrackers) = 2
    /\ ~analyzer.allocatedNow
    /\ analyzer.reducedDims # ReducedDims(analyzer, anFrame)
    /\ analyzer.markerTrackers[2].lastMarkerLocation # None

\* C9: over any sequence of cropFrame calls on one tracker the detector's
\* buffers are allocated exactly once, in the first call.
C9_AllocatedOnce ==
    \A k \in Markers :
        windowedTrackers[k].markerTracker.allocs = Min(windowedTrackers[k].crops, 1)

\* C10: every marker has a known location when the loop publishes and draws,
\* and right after every processFrame call; the lists of analyzers, windowed
\* trackers and locations are as long as the list of configured markers.
C10_KnownWhenPublished ==
    /\ (pc \in {"publish", "draw"} \/ lastCall = "processFrame") =>
          \A k \in Markers : Known(oldLocations, k)
    /\ Len(trackers) = Len(MarkerOrders)
    /\ Len(windowedTrackers) = Len(MarkerOrders)
    /\ Len(oldLocations) = Len(MarkerOrders)

\* the loop publishes after an R key reset markers that were being tracked
C10_Witness ==
    /\ pc = "publish"
    /\ windowedTrackers[1].crops > 0
    /\ oldLocations[1] = FullResult(trackers[1])
    /\ oldLocations[1] # WindowedResult(windowedTrackers[1])

====
